---- MODULE Spec2Model ----
(***************************************************************************)
(* Model of the lecture CRUD endpoints:                                    *)
(*   - ProductViewSet (mariam_kipshidze_lecture/my_online_store/product/   *)
(*     views.py): serializer selection by action, permission gate by       *)
(*     action, soft delete.                                                *)
(*   - UserViewSet (nikoloz_mdinaradze_lecture/users/views.py): the        *)
(*     get_username_only detail action behind IsAuthenticatedUser.         *)
(* Every request is one atomic step (spec section 5 and 7: one request per *)
(* invocation, atomicity delegated to the persistence layer).              *)
(***************************************************************************)
EXTENDS Integers, FiniteSets, Sequences, TLC

VARIABLES
    store,      \* Product table:  id -> row
    users,      \* User table:     id -> row
    request,    \* the request handled by the last step
    response    \* the response the last step produced

vars == <<store, users, request, response>>

\* Largest number of rows a table holds in the model.
MaxId == 2

Titles == {"chair", "table"}
Prices == {10, 20}
Tags == {"sale"}
CategorySets == {{"toys"}}
Usernames == {"alice", "bob"}

\* Primary keys a request may name: every possible row id and one id that
\* never resolves (the 9999 of the spec).
Pks == 1 .. (MaxId + 1)

\* ------------------------------------------------------------------------
\* Product model and serializers (product/models.py, product/serializers.py)
\* ------------------------------------------------------------------------

\* Fields of a Product row.
ModelFields == {"id", "title", "categories", "price", "tag", "is_deleted"}

\* Fields a client may send on create / update.
WritableFields == {"title", "categories", "price", "tag"}

FullPayloads ==
    { [title |-> t, categories |-> c, price |-> p, tag |-> g] :
        t \in Titles, c \in CategorySets, p \in Prices, g \in Tags }

Restrict(d, S) == [f \in S |-> d[f]]

\* Request bodies: every full payload, every single-field payload, the empty one.
Payloads == FullPayloads
            \cup { Restrict(d, {f}) : d \in FullPayloads, f \in WritableFields }
            \cup { Restrict(d, {}) : d \in FullPayloads }

\* Product.objects : the default manager, every row of the table.
ProductObjects(db) == db

\* ProductDynamicFieldsSerializer(..., fields=allowed): the declared fields
\* that are not in the allow-list are dropped.
ProductDynamicFieldsSerializer(allowed) ==
    [kind |-> "ProductDynamicFieldsSerializer", fields |-> ModelFields \cap allowed]

CreateProductSerializer ==
    [kind |-> "CreateProductSerializer", fields |-> ModelFields]

MutateProductSerializer ==
    [kind |-> "MutateProductSerializer", fields |-> ModelFields]

\* serializer.data for one row.
to_representation(ser, row) == [f \in ser.fields |-> row[f]]

\* serializer.is_valid(): a non-partial write must carry every writable field.
is_valid(data, partial) == partial \/ DOMAIN data = WritableFields

\* Model.save(): write the row under its primary key.
save(db, row) ==
    [id \in DOMAIN db \cup {row.id} |-> IF id = row.id THEN row ELSE db[id]]

\* Next auto-increment id.
NewId(db) == Cardinality(DOMAIN db) + 1

RECURSIVE SortedIds(_)
SortedIds(S) ==
    IF S = {} THEN <<>>
    ELSE LET m == CHOOSE x \in S : \A y \in S : x <= y
         IN  <<m>> \o SortedIds(S \ {m})

\* ------------------------------------------------------------------------
\* ProductViewSet
\* ------------------------------------------------------------------------

\* queryset = Product.objects.all()
queryset(db) == ProductObjects(db)

get_serializer_listWide(action) ==
    IF action = "list" THEN
        ProductDynamicFieldsSerializer({"id", "title", "categories", "price", "tag"})
    ELSE IF action = "retrieve" THEN
        ProductDynamicFieldsSerializer({"id", "title", "categories", "price", "tag"})
    ELSE IF action = "create" THEN CreateProductSerializer
    ELSE MutateProductSerializer

get_serializer_retrieveFallsThrough(action) ==
    IF action = "list" THEN ProductDynamicFieldsSerializer({"id", "title"})
    ELSE IF action = "create" THEN CreateProductSerializer
    ELSE MutateProductSerializer

get_serializer_createFallsThrough(action) ==
    IF action = "list" THEN ProductDynamicFieldsSerializer({"id", "title"})
    ELSE IF action = "retrieve" THEN
        ProductDynamicFieldsSerializer({"id", "title", "categories", "price", "tag"})
    ELSE MutateProductSerializer

get_serializer(action) ==
    IF action = "list" THEN ProductDynamicFieldsSerializer({"id", "title"})
    ELSE IF action = "retrieve" THEN
        ProductDynamicFieldsSerializer({"id", "title", "categories", "price", "tag"})
    ELSE IF action = "create" THEN CreateProductSerializer
    ELSE MutateProductSerializer

\* settings: DEFAULT_PERMISSION_CLASSES, what super().get_permissions() gives.
DefaultPermissionClasses == {"AllowAny"}

get_permissions_destroyOpen(action) ==
    IF action \in {"create", "update", "partial_update"}
    THEN {"IsAuthenticated"}
    ELSE DefaultPermissionClasses

get_permissions_retrieveClosed(action) ==
    IF action \in {"retrieve", "create", "update", "partial_update", "destroy"}
    THEN {"IsAuthenticated"}
    ELSE DefaultPermissionClasses

get_permissions(action) ==
    IF action \in {"create", "update", "partial_update", "destroy"}
    THEN {"IsAuthenticated"}
    ELSE DefaultPermissionClasses

\* IsAuthenticated.has_permission / AllowAny.has_permission
has_permission(perm, req) ==
    IF perm = "IsAuthenticated" THEN req.authenticated ELSE TRUE

\* APIView.check_permissions, run before the handler.
check_permissions(req) ==
    \A perm \in get_permissions(req.action) : has_permission(perm, req)

perform_destroy_delete(db, instance) ==
    [id \in DOMAIN db \ {instance.id} |-> db[id]]

perform_destroy_freshInstance(db, instance) ==
    save(db, [instance EXCEPT !.is_deleted = TRUE, !.title = "", !.tag = ""])

\* instance.is_deleted = True; instance.save()
perform_destroy(db, instance) ==
    save(db, [instance EXCEPT !.is_deleted = TRUE])

NoBody == <<>>

Result(status, ser, body, db) ==
    [status |-> status, serializer |-> ser, body |-> body, db |-> db]

Denied(db) == Result("AuthorizationError", "None", NoBody, db)
NotFound(db) == Result("NotFoundError", "None", NoBody, db)

\* ListModelMixin.list
list(db, req) ==
    LET ser == get_serializer(req.action)
        ids == SortedIds(DOMAIN queryset(db))
    IN  Result("OK", ser.kind,
               [i \in 1 .. Len(ids) |-> to_representation(ser, queryset(db)[ids[i]])],
               db)

\* RetrieveModelMixin.retrieve
retrieve(db, req) ==
    IF req.pk \notin DOMAIN queryset(db) THEN NotFound(db)
    ELSE LET ser == get_serializer(req.action)
         IN  Result("OK", ser.kind, to_representation(ser, queryset(db)[req.pk]), db)

\* CreateModelMixin.create
create(db, req, data) ==
    LET ser == get_serializer(req.action)
    IN  IF ~is_valid(data, FALSE)
        THEN Result("ValidationError", ser.kind, NoBody, db)
        ELSE LET row == [f \in ModelFields |->
                            IF f = "id" THEN NewId(db)
                            ELSE IF f = "is_deleted" THEN FALSE
                            ELSE data[f]]
             IN  Result("Created", ser.kind, to_representation(ser, row), save(db, row))

\* UpdateModelMixin.update / partial_update
update(db, req, data) ==
    IF req.pk \notin DOMAIN queryset(db) THEN NotFound(db)
    ELSE LET ser == get_serializer(req.action)
             partial == (req.action = "partial_update")
             old == queryset(db)[req.pk]
         IN  IF ~is_valid(data, partial)
             THEN Result("ValidationError", ser.kind, NoBody, db)
             ELSE LET row == [f \in ModelFields |->
                                 IF f \in DOMAIN data THEN data[f] ELSE old[f]]
                  IN  Result("OK", ser.kind, to_representation(ser, row), save(db, row))

destroy_noLookup(db, req) ==
    Result("NoContent", "None", NoBody,
           IF req.pk \in DOMAIN db THEN perform_destroy(db, db[req.pk]) ELSE db)

\* DestroyModelMixin.destroy with the overridden perform_destroy
destroy(db, req) ==
    IF req.pk \notin DOMAIN queryset(db) THEN NotFound(db)
    ELSE Result("NoContent", "None", NoBody,
                perform_destroy(db, queryset(db)[req.pk]))

\* One request through APIView.dispatch: permission gate, then the handler.
Respond(req, res) ==
    /\ request' = req
    /\ response' = [status |-> res.status, serializer |-> res.serializer,
                    body |-> res.body]
    /\ store' = res.db
    /\ UNCHANGED users

ProductRequest(action, auth, pk) ==
    [action |-> action, authenticated |-> auth, pk |-> pk]

List ==
    \E auth \in BOOLEAN :
        LET req == ProductRequest("list", auth, 0)
        IN  Respond(req, IF check_permissions(req) THEN list(store, req)
                         ELSE Denied(store))

Retrieve ==
    \E auth \in BOOLEAN, pk \in Pks :
        LET req == ProductRequest("retrieve", auth, pk)
        IN  Respond(req, IF check_permissions(req) THEN retrieve(store, req)
                         ELSE Denied(store))

Create ==
    \E auth \in BOOLEAN, data \in Payloads :
        LET req == ProductRequest("create", auth, 0)
            res == IF check_permissions(req) THEN create(store, req, data)
                   ELSE Denied(store)
        IN  /\ Cardinality(DOMAIN res.db) <= MaxId
            /\ Respond(req, res)

Update ==
    \E auth \in BOOLEAN, pk \in Pks, data \in Payloads :
        LET req == ProductRequest("update", auth, pk)
        IN  Respond(req, IF check_permissions(req) THEN update(store, req, data)
                         ELSE Denied(store))

PartialUpdate ==
    \E auth \in BOOLEAN, pk \in Pks, data \in Payloads :
        LET req == ProductRequest("partial_update", auth, pk)
        IN  Respond(req, IF check_permissions(req) THEN update(store, req, data)
                         ELSE Denied(store))

Destroy ==
    \E auth \in BOOLEAN, pk \in Pks :
        LET req == ProductRequest("destroy", auth, pk)
        IN  Respond(req, IF check_permissions(req) THEN destroy(store, req)
                         ELSE Denied(store))

EmptyTable == [id \in {} |-> id]

IdleRequest == ProductRequest("None", FALSE, 0)
IdleResponse == [status |-> "None", serializer |-> "None", body |-> NoBody]

Init ==
    /\ store = EmptyTable
    /\ users = EmptyTable
    /\ request = IdleRequest
    /\ response = IdleResponse

Next ==
    \/ List
    \/ Retrieve
    \/ Create
    \/ Update
    \/ PartialUpdate
    \/ Destroy

Spec == Init /\ [][Next]_vars

\* ------------------------------------------------------------------------
\* get_serializer as a function of the view's state: any action name
\* (including the ones no route sets), any caller, any instance argument.
\* ------------------------------------------------------------------------

ActionNames == {"list", "retrieve", "create", "update", "partial_update",
                "destroy", "metadata", "None"}

Rows ==
    { [id |-> i, title |-> d.title, categories |-> d.categories,
       price |-> d.price, tag |-> d.tag, is_deleted |-> del] :
         i \in 1 .. MaxId, d \in FullPayloads, del \in BOOLEAN }

SelectSerializer ==
    \E action \in ActionNames, auth \in BOOLEAN, instance \in Rows :
        /\ request' = ProductRequest(action, auth, instance.id)
        /\ response' = [status |-> "Selected",
                        serializer |-> get_serializer(action).kind,
                        body |-> instance]
        /\ UNCHANGED <<store, users>>

SelNext == SelectSerializer

SelSpec == Init /\ [][SelNext]_vars

\* ------------------------------------------------------------------------
\* UserViewSet
\* ------------------------------------------------------------------------

NoFilter == ""

\* users/filters.py UserFilter: an optional match on username.
UserFilter(db, flt) ==
    [id \in {i \in DOMAIN db : flt = NoFilter \/ db[i].username = flt} |-> db[id]]

\* users/permissions.py IsAuthenticatedUser: authenticated AND a
\* resource-specific condition, which the request carries as an input.
IsAuthenticatedUser_has_permission(req) == req.authenticated

IsAuthenticatedUser_has_object_permission(req, user) ==
    req.authenticated /\ req.condition

\* queryset = User.objects.all()
user_queryset(db) == db

\* GenericAPIView.get_object: filter_queryset, get_object_or_404,
\* check_object_permissions.
get_object(db, req) ==
    LET qs == UserFilter(user_queryset(db), req.filter)
    IN  IF req.pk \notin DOMAIN qs THEN "NotFoundError"
        ELSE IF ~IsAuthenticatedUser_has_object_permission(req, qs[req.pk])
        THEN "AuthorizationError"
        ELSE "OK"

get_username_only_wholeUser(db, req) ==
    IF get_object(db, req) # "OK"
    THEN Result(get_object(db, req), "None", NoBody, db)
    ELSE Result("OK", "None",
                [id |-> db[req.pk].id, username |-> db[req.pk].username], db)

\* user = self.get_object(); return Response({'username': user.username})
get_username_only(db, req) ==
    IF get_object(db, req) # "OK"
    THEN Result(get_object(db, req), "None", NoBody, db)
    ELSE Result("OK", "None", [username |-> db[req.pk].username], db)

\* Next auto-increment id of the user table (rows can be deleted).
NewUserId(db) ==
    IF DOMAIN db = {} THEN 1
    ELSE (CHOOSE x \in DOMAIN db : \A y \in DOMAIN db : y <= x) + 1

\* CreateModelMixin.create on User: usernames are unique.
user_create(db, req, name) ==
    IF \E id \in DOMAIN db : db[id].username = name
    THEN Result("ValidationError", "UserSerializer", NoBody, db)
    ELSE LET row == [id |-> NewUserId(db), username |-> name]
         IN  Result("Created", "UserSerializer", row, save(db, row))

\* DestroyModelMixin.destroy on User: instance.delete()
user_destroy(db, req) ==
    IF get_object(db, req) # "OK"
    THEN Result(get_object(db, req), "None", NoBody, db)
    ELSE Result("NoContent", "None", NoBody,
                [id \in DOMAIN db \ {req.pk} |-> db[id]])

\* UpdateModelMixin.partial_update on User.username
user_update(db, req, name) ==
    IF get_object(db, req) # "OK"
    THEN Result(get_object(db, req), "None", NoBody, db)
    ELSE IF \E id \in DOMAIN db \ {req.pk} : db[id].username = name
    THEN Result("ValidationError", "UserSerializer", NoBody, db)
    ELSE LET row == [db[req.pk] EXCEPT !.username = name]
         IN  Result("OK", "UserSerializer", row, save(db, row))

UserRequest(action, auth, cond, pk, flt) ==
    [action |-> action, authenticated |-> auth, pk |-> pk,
     condition |-> cond, filter |-> flt]

UserRespond(req, res) ==
    /\ request' = req
    /\ response' = [status |-> res.status, serializer |-> res.serializer,
                    body |-> res.body]
    /\ users' = res.db
    /\ UNCHANGED store

UserFilters == {NoFilter} \cup Usernames

GetUsernameOnly ==
    \E auth \in BOOLEAN, cond \in BOOLEAN, pk \in Pks, flt \in UserFilters :
        LET req == UserRequest("get_username_only", auth, cond, pk, flt)
        IN  UserRespond(req, IF IsAuthenticatedUser_has_permission(req)
                             THEN get_username_only(users, req)
                             ELSE Denied(users))

UserCreate ==
    \E auth \in BOOLEAN, cond \in BOOLEAN, name \in Usernames :
        LET req == UserRequest("create", auth, cond, 0, NoFilter)
            res == IF IsAuthenticatedUser_has_permission(req)
                   THEN user_create(users, req, name)
                   ELSE Denied(users)
        IN  /\ \A id \in DOMAIN res.db : id <= MaxId
            /\ UserRespond(req, res)

UserPartialUpdate ==
    \E auth \in BOOLEAN, cond \in BOOLEAN, pk \in Pks, flt \in UserFilters,
       name \in Usernames :
        LET req == UserRequest("partial_update", auth, cond, pk, flt)
        IN  UserRespond(req, IF IsAuthenticatedUser_has_permission(req)
                             THEN user_update(users, req, name)
                             ELSE Denied(users))

UserDestroy ==
    \E auth \in BOOLEAN, cond \in BOOLEAN, pk \in Pks, flt \in UserFilters :
        LET req == UserRequest("destroy", auth, cond, pk, flt)
        IN  UserRespond(req, IF IsAuthenticatedUser_has_permission(req)
                             THEN user_destroy(users, req)
                             ELSE Denied(users))

UserNext ==
    \/ GetUsernameOnly
    \/ UserCreate
    \/ UserPartialUpdate
    \/ UserDestroy

UserSpec == Init /\ [][UserNext]_vars

\* ------------------------------------------------------------------------
\* Properties
\* ------------------------------------------------------------------------

ProtectedActions == {"create", "update", "partial_update", "destroy"}

\* C1: on ProductViewSet an unauthenticated create, update, partial_update
\* or destroy is answered with an AuthorizationError and leaves the store
\* exactly as it was.
C1_UnauthenticatedWriteDenied ==
    [][ (request'.action \in ProtectedActions /\ ~request'.authenticated)
        => (response'.status = "AuthorizationError" /\ store' = store) ]_vars

C1_Witness ==
    /\ request.action = "destroy"
    /\ ~request.authenticated
    /\ request.pk \in DOMAIN store
    /\ ~store[request.pk].is_deleted
    /\ response.status = "AuthorizationError"

\* C2: after an authenticated destroy of an existing product, fetching it by
\* id still finds a row, that row has is_deleted = TRUE, and the table has as
\* many rows as before.
C2_SoftDeleteKeepsRow ==
    [][ (request'.action = "destroy" /\ request'.authenticated
         /\ request'.pk \in DOMAIN store)
        => (/\ retrieve(store', ProductRequest("retrieve", FALSE, request'.pk)).status = "OK"
            /\ request'.pk \in DOMAIN store'
            /\ store'[request'.pk].is_deleted
            /\ Cardinality(DOMAIN store') = Cardinality(DOMAIN store)) ]_vars

C2_Witness ==
    /\ request.action = "destroy"
    /\ request.authenticated
    /\ response.status = "NoContent"
    /\ Cardinality(DOMAIN store) = MaxId
    /\ store[request.pk].is_deleted

\* C3: in every reachable state the default list of ProductViewSet has no
\* entry for a row whose is_deleted flag is TRUE.
C3_ListExcludesDeleted ==
    LET body == list(store, ProductRequest("list", FALSE, 0)).body
    IN  \A pk \in DOMAIN store :
            store[pk].is_deleted => \A i \in 1 .. Len(body) : body[i].id # pk

\* C4: the list operation answers with the field-projecting serializer and
\* every row of the table has an entry whose keys are exactly id and title.
C4_ListKeys ==
    request.action = "list" =>
        /\ response.status = "OK"
        /\ response.serializer = "ProductDynamicFieldsSerializer"
        /\ Len(response.body) = Cardinality(DOMAIN store)
        /\ \A i \in 1 .. Len(response.body) :
               DOMAIN response.body[i] = {"id", "title"}
        /\ \A pk \in DOMAIN store :
               \E i \in 1 .. Len(response.body) :
                   /\ response.body[i].id = pk
                   /\ response.body[i].title = store[pk].title

C4_Witness ==
    /\ request.action = "list"
    /\ Len(response.body) = MaxId
    /\ \E pk \in DOMAIN store : store[pk].is_deleted

\* C5: the retrieve operation answers, for every row of the table, with the
\* field-projecting serializer and exactly the keys id, title, categories,
\* price and tag (never is_deleted).
C5_RetrieveKeys ==
    (request.action = "retrieve" /\ request.pk \in DOMAIN store) =>
        /\ response.status = "OK"
        /\ response.serializer = "ProductDynamicFieldsSerializer"
        /\ DOMAIN response.body = {"id", "title", "categories", "price", "tag"}
        /\ \A f \in DOMAIN response.body : response.body[f] = store[request.pk][f]

C5_Witness ==
    /\ request.action = "retrieve"
    /\ request.pk \in DOMAIN store
    /\ response.status = "OK"
    /\ "is_deleted" \notin DOMAIN response.body

\* C6: an authenticated destroy of an id that resolves to no row is answered
\* with a NotFoundError and leaves the store unchanged.
C6_DestroyMissingNotFound ==
    [][ (request'.action = "destroy" /\ request'.authenticated
         /\ request'.pk \notin DOMAIN store)
        => (response'.status = "NotFoundError" /\ store' = store) ]_vars

C6_Witness ==
    /\ request.action = "destroy"
    /\ request.authenticated
    /\ request.pk \notin DOMAIN store
    /\ DOMAIN store # {}
    /\ response.status = "NotFoundError"

\* C7: list and retrieve are never answered with an AuthorizationError,
\* whatever the caller's authentication state.
C7_ReadsOpen ==
    request.action \in {"list", "retrieve"} => response.status # "AuthorizationError"

C7_Witness ==
    /\ request.action = "retrieve"
    /\ ~request.authenticated
    /\ response.status = "OK"

\* C8 as stated: get_username_only answers an id that resolves to a user row
\* with exactly {username: that row's username}, any other id with Not-Found,
\* and leaves the user table unchanged.
C8_AsStated ==
    [][ request'.action = "get_username_only"
        => (/\ users' = users
            /\ IF request'.pk \in DOMAIN users
               THEN /\ response'.status = "OK"
                    /\ response'.body = [username |-> users[request'.pk].username]
               ELSE response'.status = "NotFoundError") ]_vars

\* C8 amended: get_username_only leaves the user table unchanged; a caller the
\* IsAuthenticatedUser gate rejects gets an AuthorizationError; a caller it
\* admits gets exactly {username: the row's username} when the id resolves in
\* the view's filtered queryset and Not-Found when it does not.
C8_UsernameOnlyBehindGate ==
    [][ request'.action = "get_username_only"
        => LET req == request'
               qs  == UserFilter(user_queryset(users), req.filter)
           IN  /\ users' = users
               /\ ~IsAuthenticatedUser_has_permission(req)
                    => response'.status = "AuthorizationError"
               /\ (IsAuthenticatedUser_has_permission(req) /\ req.pk \notin DOMAIN qs)
                    => response'.status = "NotFoundError"
               /\ (req.pk \in DOMAIN qs
                   /\ ~IsAuthenticatedUser_has_object_permission(req, qs[req.pk]))
                    => response'.status = "AuthorizationError"
               /\ (req.pk \in DOMAIN qs
                   /\ IsAuthenticatedUser_has_permission(req)
                   /\ IsAuthenticatedUser_has_object_permission(req, qs[req.pk]))
                    => (/\ response'.status = "OK"
                        /\ DOMAIN response'.body = {"username"}
                        /\ response'.body.username = users[req.pk].username) ]_vars

C8_Witness ==
    /\ request.action = "get_username_only"
    /\ response.status = "OK"
    /\ request.pk \in DOMAIN users
    /\ users[request.pk].username = "alice"
    /\ response.body = [username |-> "alice"]
    /\ Cardinality(DOMAIN users) = MaxId

\* C9: the serializer is a function of the action name alone: create gives
\* CreateProductSerializer and every action other than list, retrieve and
\* create gives MutateProductSerializer, for every caller and every instance.
C9_SerializerByActionOnly ==
    response.status = "Selected" =>
        /\ request.action = "create"
             => response.serializer = "CreateProductSerializer"
        /\ request.action \notin {"list", "retrieve", "create"}
             => response.serializer = "MutateProductSerializer"
        /\ request.action \in {"list", "retrieve"}
             => response.serializer = "ProductDynamicFieldsSerializer"

C9_Witness ==
    /\ response.status = "Selected"
    /\ request.action = "metadata"
    /\ request.authenticated
    /\ response.body.is_deleted
    /\ response.serializer = "MutateProductSerializer"

====
